---- MODULE Spec2Model ----
(***************************************************************************)
(* Verification model of vscode-php-cs-fixer.                              *)
(*                                                                         *)
(*  - beautifyHtml: the hybrid markup/code beautification transform        *)
(*    (escapeTokenContent, processToken, preAction, afterAction,           *)
(*    getScriptStyleRanges, inScriptStyleTag, beautify).                   *)
(*  - FormattingService.format and its isRunning guard.                    *)
(*  - runAsync and the events of its child process.                        *)
(*  - downloadPhpCsFixerFile, the output module and                        *)
(*    AutoFixService.doAutoFixByBracket.                                   *)
(*                                                                         *)
(* Text is a sequence of one-character strings, so that indexOf, the       *)
(* regular expressions and the sentinel vocabulary are computed character  *)
(* by character, as the code computes them.                                *)
(***************************************************************************)
EXTENDS Integers, Sequences, FiniteSets, TLC

VARIABLES
    \* ---- beautify(text, options) ----
    text,               \* the input string
    options,            \* the options record (list-valued options only)
    tokens,             \* what parser.tokenGetAll(text) returns
    beautifier,         \* which behaviour the external beautifier shows
    pc,                 \* position in beautify / preAction
    path,               \* "none", "fast" or "full"
    scriptStyleRanges,  \* preAction: ranges found by getScriptStyleRanges
    strArr,             \* preAction: the output pieces pushed so far
    index,              \* preAction: the cursor
    tokenPos,           \* preAction: position of the for-of loop
    php,                \* the disguised text returned by preAction
    htmlOptions,        \* the options handed to the external beautifier
    beautified,         \* what the external beautifier returned
    result,             \* what beautify returns
    \* ---- Marker codec exercised on its own ----
    codecPc, codecS, codecB, codecEncoded, codecDecoded,
    \* ---- FormattingService ----
    isRunning,          \* FormattingService.isRunning
    calls,              \* the format() calls: position, options, outcome
    tmpDirs,            \* the calls whose pcf-tmp directory exists
    partialFile,        \* the call whose text php-cs-fixer-partial.php holds, 0 if none
    filesWritten,       \* number of fs.writeFileSync calls that wrote a file
    spawned,            \* number of fixer processes started by runAsync
    settled,            \* the fixer process that settled last: its call and outcome
    \* ---- runAsync ----
    raPc,               \* "idle", or "listening" once the child is spawned
    raPromise,          \* the promise runAsync returns: state and value
    stdoutCollector,    \* BufferCollector of child.stdout
    stderrCollector,    \* BufferCollector of child.stderr
    raListeners,        \* the listeners attached to the child's 'error' and 'close'
    raEvents,           \* the 'error' and 'close' events the child has emitted
    raChunks,           \* the chunks the child has emitted on stdout and stderr
    \* ---- downloadPhpCsFixerFile ----
    dlPc,               \* the await the call is suspended at, "idle" or "done"
    dlFile,             \* what outputPath holds on disk
    dlCaught,           \* the error caught by the catch block, "none" if none
    dlPromise,          \* the promise downloadPhpCsFixerFile returns
    dlUnlinks,          \* fs.unlink calls made by the current call
    dlCalls,            \* calls of downloadPhpCsFixerFile made so far
    \* ---- output module ----
    outputChannel,      \* module variable: 0 for null, else the channel's number
    statusBarItem,      \* module variable: 0 for null, else the item's number
    channels,           \* every OutputChannel created so far
    items,              \* every StatusBarItem created so far
    outThrew,           \* a call of the module has thrown
    outCalls,           \* calls of the module's functions made so far
    \* ---- AutoFixService.doAutoFixByBracket ----
    afPc,               \* the await the call is suspended at, "idle" or "done"
    afEvent,            \* event.contentChanges: the text of each change
    afEditor,           \* window.activeTextEditor is set
    afDocument,         \* what the editor shows around the cursor
    afCommands,         \* the editor commands executed so far
    afFormatCalls,      \* calls of formatting.format
    afEdits,            \* edits applied through editor.edit
    afReplacement,      \* the text of the last builder.replace(range, ...)
    \* ---- FormattingService.getArgs ----
    gaPc,               \* "new", "loaded", "done"
    gaConfig,           \* the ConfigSchema record loadConfig returned
    gaEnv,              \* the arguments and the environment of the getArgs call
    gaArgs              \* the array getArgs returned

beautifyVars == <<text, options, tokens, beautifier, pc, path, scriptStyleRanges,
                  strArr, index, tokenPos, php, htmlOptions, beautified, result>>
codecVars == <<codecPc, codecS, codecB, codecEncoded, codecDecoded>>
formatVars == <<isRunning, calls, tmpDirs, partialFile, filesWritten, spawned, settled>>
runVars == <<raPc, raPromise, stdoutCollector, stderrCollector, raListeners, raEvents,
             raChunks>>
downloadVars == <<dlPc, dlFile, dlCaught, dlPromise, dlUnlinks, dlCalls>>
outputVars == <<outputChannel, statusBarItem, channels, items, outThrew, outCalls>>
autoFixVars == <<afPc, afEvent, afEditor, afDocument, afCommands, afFormatCalls, afEdits,
                 afReplacement>>
argsVars == <<gaPc, gaConfig, gaEnv, gaArgs>>
extraVars == <<runVars, downloadVars, outputVars, autoFixVars, argsVars>>
exceptRun == <<beautifyVars, codecVars, formatVars, downloadVars, outputVars, autoFixVars, argsVars>>
exceptDownload == <<beautifyVars, codecVars, formatVars, runVars, outputVars, autoFixVars, argsVars>>
exceptOutput == <<beautifyVars, codecVars, formatVars, runVars, downloadVars, autoFixVars, argsVars>>
exceptArgs == <<beautifyVars, codecVars, formatVars, runVars, downloadVars, outputVars,
               autoFixVars>>
exceptAutoFix == <<beautifyVars, codecVars, formatVars, runVars, downloadVars, outputVars, argsVars>>
vars == <<beautifyVars, codecVars, formatVars, extraVars>>

(***************************************************************************)
(* Bounds                                                                  *)
(***************************************************************************)
MaxPieces == 3       \* pieces (markup runs, code segments) per input text
MaxCodecPieces == 2  \* pieces per string given to the codec
MaxCalls == 3        \* format() calls made on one FormattingService
MaxChunks == 2       \* data chunks the child writes to one stream
MaxEvents == 3       \* 'error' and 'close' events the child emits
MaxDownloads == 3    \* calls of downloadPhpCsFixerFile, one after the other
MaxOutputCalls == 5  \* calls of the output module's functions
MaxChanges == 2      \* content changes carried by one change event

(***************************************************************************)
(* Strings                                                                 *)
(***************************************************************************)
Whitespace == {" ", "\n", "\t"}

Min(S) == CHOOSE x \in S : \A y \in S : x <= y
Max(S) == CHOOSE x \in S : \A y \in S : x >= y

RECURSIVE Flatten(_)
Flatten(ss) == IF ss = <<>> THEN <<>> ELSE Head(ss) \o Flatten(Tail(ss))

\* pat occurs in s at the 1-based position i
MatchAt(s, pat, i) ==
    /\ i >= 1
    /\ i + Len(pat) - 1 <= Len(s)
    /\ SubSeq(s, i, i + Len(pat) - 1) = pat

Contains(s, pat) == \E i \in 1..Len(s) : MatchAt(s, pat, i)

\* String.prototype.indexOf / lastIndexOf: 0-based, -1 when absent
IndexOf(s, pat) ==
    LET hits == {i \in 1..Len(s) : MatchAt(s, pat, i)}
    IN IF hits = {} THEN -1 ELSE Min(hits) - 1

LastIndexOf(s, pat) ==
    LET hits == {i \in 1..Len(s) : MatchAt(s, pat, i)}
    IN IF hits = {} THEN -1 ELSE Max(hits) - 1

\* String.prototype.replace with a global regular expression of a literal:
\* left to right, non-overlapping; i is the position the scan has reached
RECURSIVE ReplaceFrom(_, _, _, _)
ReplaceFrom(s, pat, rep, i) ==
    LET hits == {j \in i..Len(s) : MatchAt(s, pat, j)}
    IN IF hits = {} THEN SubSeq(s, i, Len(s))
       ELSE SubSeq(s, i, Min(hits) - 1) \o rep
                \o ReplaceFrom(s, pat, rep, Min(hits) + Len(pat))

ReplaceAll(s, pat, rep) == ReplaceFrom(s, pat, rep, 1)

\* number of whitespace characters of s starting at position i (greedy \s*)
RECURSIVE WsRun(_, _)
WsRun(s, i) == IF i <= Len(s) /\ s[i] \in Whitespace THEN 1 + WsRun(s, i + 1) ELSE 0

ToLowerChar(c) ==
    CASE c = "P" -> "p" [] c = "H" -> "h" [] c = "C" -> "c" [] c = "R" -> "r"
      [] c = "E" -> "e" [] c = "O" -> "o" [] c = "D" -> "d" [] OTHER -> c

ToLowerCase(s) == [i \in 1..Len(s) |-> ToLowerChar(s[i])]

\* String.prototype.trim
Trim(s) ==
    LET keep == {i \in 1..Len(s) : s[i] \notin Whitespace}
    IN IF keep = {} THEN <<>> ELSE SubSeq(s, Min(keep), Max(keep))

\* String.prototype.split(',') of a non-empty string
RECURSIVE SplitComma(_)
SplitComma(s) ==
    LET commas == {i \in 1..Len(s) : s[i] = ","}
    IN IF commas = {} THEN <<s>>
       ELSE <<SubSeq(s, 1, Min(commas) - 1)>>
                \o SplitComma(SubSeq(s, Min(commas) + 1, Len(s)))

(***************************************************************************)
(* Sentinel vocabulary                                                     *)
(***************************************************************************)
COMMENT_START_MARKUP == <<"<", "i", ">", "<", "/", "i", ">", "<", "!", "-", "-", " ", "%", "p", "c", "s", "-", "c", "o", "m", "m", "e", "n", "t", "-", "s", "t", "a", "r", "t", "#">>
COMMENT_START_CODE == <<"/", "*", "%", "p", "c", "s", "-", "c", "o", "m", "m", "e", "n", "t", "-", "s", "t", "a", "r", "t", "#">>
COMMENT_END_MARKUP == <<"%", "p", "c", "s", "-", "c", "o", "m", "m", "e", "n", "t", "-", "e", "n", "d", "#", "-", "-", ">">>
COMMENT_END_CODE == <<"%", "p", "c", "s", "-", "c", "o", "m", "m", "e", "n", "t", "-", "e", "n", "d", "#", "*", "/">>
ESCAPED_MARKUP_END == <<"-", "%", "c", "o", "m", "m", "e", "n", "t", "-", "e", "n", "d", "#", "-", ">">>
ESCAPED_CODE_END == <<"*", "%", "c", "o", "m", "m", "e", "n", "t", "-", "e", "n", "d", "#", "/">>
QUOTE_DOUBLE == <<"p", "c", "s", "%", "q", "u", "o", "t", "e", "#", "1">>
QUOTE_SINGLE == <<"p", "c", "s", "%", "q", "u", "o", "t", "e", "~", "2">>
SYNTHETIC_CLOSE == <<"?", ">", "%", "p", "c", "s", "-", "c", "o", "m", "m", "e", "n", "t", "-", "e", "n", "d", "#", "-", "-", ">">>
MARKUP_START_TAIL == <<"<", "!", "-", "-", " ", "%", "p", "c", "s", "-", "c", "o", "m", "m", "e", "n", "t", "-", "s", "t", "a", "r", "t", "#">>
I_OPEN == <<"<", "i", ">">>
I_CLOSE == <<"<", "/", "i", ">">>
MARKUP_END == <<"-", "-", ">">>
CODE_END == <<"*", "/">>
OPEN_PHP == <<"<", "?", "p", "h", "p">>
CLOSE_PHP == <<"?", ">">>

\* the reserved substrings no output may contain
PCS_COMMENT_START == <<"%", "p", "c", "s", "-", "c", "o", "m", "m", "e", "n", "t", "-", "s", "t", "a", "r", "t", "#">>
PCS_COMMENT_END == <<"%", "p", "c", "s", "-", "c", "o", "m", "m", "e", "n", "t", "-", "e", "n", "d", "#">>
COMMENT_END == <<"%", "c", "o", "m", "m", "e", "n", "t", "-", "e", "n", "d", "#">>
ReservedSentinels == {PCS_COMMENT_START, PCS_COMMENT_END, COMMENT_END, QUOTE_DOUBLE, QUOTE_SINGLE}

HasSentinel(s) == \E r \in ReservedSentinels : Contains(s, r)

(***************************************************************************)
(* Marker codec                                                            *)
(***************************************************************************)
\* escapeTokenContent: the three rules applied in order by reduce
escapeTokenContent(content, isComment) ==
    LET r1 == ReplaceAll(content, <<"\"">>, QUOTE_DOUBLE)
        r2 == ReplaceAll(r1, <<"'">>, QUOTE_SINGLE)
    IN IF isComment THEN ReplaceAll(r2, MARKUP_END, ESCAPED_MARKUP_END)
       ELSE ReplaceAll(r2, CODE_END, ESCAPED_CODE_END)

\* length matched by /<i>\s*<\/i>\s*<!-- %pcs-comment-start#/ at position i, 0 when none
MarkupStartMatch(s, i) ==
    IF ~MatchAt(s, I_OPEN, i) THEN 0
    ELSE LET j == i + Len(I_OPEN) + WsRun(s, i + Len(I_OPEN))
         IN IF ~MatchAt(s, I_CLOSE, j) THEN 0
            ELSE LET k == j + Len(I_CLOSE) + WsRun(s, j + Len(I_CLOSE))
                 IN IF MatchAt(s, MARKUP_START_TAIL, k)
                    THEN k + Len(MARKUP_START_TAIL) - i
                    ELSE 0

RECURSIVE StripMarkupStartFrom(_, _)
StripMarkupStartFrom(s, i) ==
    LET hits == {j \in i..Len(s) : MarkupStartMatch(s, j) > 0}
    IN IF hits = {} THEN SubSeq(s, i, Len(s))
       ELSE SubSeq(s, i, Min(hits) - 1)
                \o StripMarkupStartFrom(s, Min(hits) + MarkupStartMatch(s, Min(hits)))

\* afterAction: the eight replacements, in the order of the code
afterAction(p) ==
    LET a1 == ReplaceAll(p, COMMENT_END_MARKUP, <<>>)
        a2 == StripMarkupStartFrom(a1, 1)
        a3 == ReplaceAll(a2, ESCAPED_MARKUP_END, MARKUP_END)
        a4 == ReplaceAll(a3, COMMENT_END_CODE, <<>>)
        a5 == ReplaceAll(a4, COMMENT_START_CODE, <<>>)
        a6 == ReplaceAll(a5, ESCAPED_CODE_END, CODE_END)
        a7 == ReplaceAll(a6, QUOTE_DOUBLE, <<"\"">>)
    IN ReplaceAll(a7, QUOTE_SINGLE, <<"'">>)

(***************************************************************************)
(* Tokens: what php-parser's tokenGetAll yields. A token is a              *)
(* [type, content] tuple (tuple = TRUE) or a bare one-character string     *)
(* (tuple = FALSE, type "").                                               *)
(***************************************************************************)
Tok(type, content) == [tuple |-> TRUE, type |-> type, content |-> content]
Str(content) == [tuple |-> FALSE, type |-> "", content |-> content]

OpenTag == Tok("T_OPEN_TAG", <<"<", "?", "p", "h", "p", " ">>)
OpenTagUpper == Tok("T_OPEN_TAG", <<"<", "?", "P", "H", "P", " ">>)
OpenTagWithEcho == Tok("T_OPEN_TAG_WITH_ECHO", <<"<", "?", "=">>)
CloseTag == Tok("T_CLOSE_TAG", <<"?", ">">>)
CloseTagNewline == Tok("T_CLOSE_TAG", <<"?", ">", "\n">>)
InlineHtml(content) == Tok("T_INLINE_HTML", content)

\* markup runs between code segments
HtmlPieces ==
    { <<InlineHtml(<<"<", "b", ">">>)>>,
      <<InlineHtml(<<" ">>)>>,
      <<InlineHtml(<<"<", "s", "c", "r", "i", "p", "t", ">">>)>>,
      <<InlineHtml(<<"<", "/", "s", "c", "r", "i", "p", "t", ">">>)>> }

\* code segments that end with a close delimiter
ClosedSegments ==
    { <<OpenTag, Tok("T_STRING", <<"x">>), CloseTag>>,
      <<OpenTag, Tok("T_STRING", <<"x">>), CloseTagNewline>>,
      <<OpenTagWithEcho, Tok("T_CONSTANT_ENCAPSED_STRING", <<"'", "-", "-", ">", "*", "/", "'">>), CloseTag>>,
      <<OpenTag, Tok("T_COMMENT", <<"#", "p", "c", "s", "%", "q", "u", "o", "t", "e", "#", "1">>), CloseTagNewline>>,
      <<OpenTagWithEcho, Tok("T_DEC", <<"-", "-">>), Str(<<">">>), Str(<<"\"">>), CloseTag>>,
      <<OpenTag, Str(<<"<">>), Str(<<"/">>), Tok("T_STRING", <<"s", "c", "r", "i", "p", "t">>),
        Tok("T_IS_GREATER_OR_EQUAL", <<">", "=">>), Tok("T_LNUMBER", <<"1">>), CloseTag>> }

\* code segments that run to the end of the input
OpenSegments ==
    { <<OpenTag, Tok("T_STRING", <<"x">>)>>,
      <<OpenTag, Tok("T_STRING", <<"x">>), Str(<<";">>)>>,
      <<OpenTagUpper, Tok("T_CONSTANT_ENCAPSED_STRING", <<"'", "<", "?", "p", "h", "p", "'">>)>> }

\* token streams the tokenizer can yield: no two markup runs are adjacent (the
\* tokenizer yields one T_INLINE_HTML for a run) and a segment without a close
\* delimiter is the last piece
RECURSIVE PieceLists(_, _)
PieceLists(n, afterHtml) ==
    IF n = 0 THEN {<<>>}
    ELSE {<<>>}
         \cup {<<p>> : p \in OpenSegments}
         \cup {<<p>> \o rest : p \in ClosedSegments, rest \in PieceLists(n - 1, FALSE)}
         \cup (IF afterHtml THEN {}
               ELSE {<<p>> \o rest : p \in HtmlPieces, rest \in PieceLists(n - 1, TRUE)})

TokenStreams == {Flatten(pl) : pl \in PieceLists(MaxPieces, FALSE)}

\* partition law: the text is the concatenation of the tokens' contents
TextOf(toks) == Flatten([i \in 1..Len(toks) |-> toks[i].content])

IsOpenTag(t) == t.tuple /\ t.type \in {"T_OPEN_TAG", "T_OPEN_TAG_WITH_ECHO"}
IsCloseTag(t) == t.tuple /\ t.type = "T_CLOSE_TAG"
IsInlineHtml(t) == t.tuple /\ t.type = "T_INLINE_HTML"

(***************************************************************************)
(* Markup range finder                                                     *)
(***************************************************************************)
SCRIPT_OPEN == <<"<", "s", "c", "r", "i", "p", "t", ">">>
SCRIPT_CLOSE == <<"<", "/", "s", "c", "r", "i", "p", "t", ">">>
B_OPEN == <<"<", "b", ">">>

\* The events htmlparser2 delivers for s from 1-based position i on: onopentag
\* with parser.startIndex at the tag's "<", onclosetag with parser.endIndex at
\* the closing tag's ">"; a script element's content is raw text up to its
\* closing tag; at the end of the input every element still open is closed.
RECURSIVE ParserEvents(_, _, _)
ParserEvents(s, i, stack) ==
    LET inScript == stack # <<>> /\ Head(stack) = "script"
        tagAt(j) == IF inScript THEN MatchAt(s, SCRIPT_CLOSE, j)
                    ELSE MatchAt(s, SCRIPT_OPEN, j) \/ MatchAt(s, B_OPEN, j)
        hits == {j \in i..Len(s) : tagAt(j)}
    IN IF hits = {}
       THEN [k \in 1..Len(stack) |->
               [event |-> "closetag", name |-> Head(SubSeq(stack, k, k)), at |-> Len(s)]]
       ELSE LET j == Min(hits)
            IN IF inScript
               THEN <<[event |-> "closetag", name |-> "script",
                       at |-> j - 1 + Len(SCRIPT_CLOSE) - 1]>>
                       \o ParserEvents(s, j + Len(SCRIPT_CLOSE), Tail(stack))
               ELSE IF MatchAt(s, SCRIPT_OPEN, j)
               THEN <<[event |-> "opentag", name |-> "script", at |-> j - 1]>>
                       \o ParserEvents(s, j + Len(SCRIPT_OPEN), <<"script">> \o stack)
               ELSE <<[event |-> "opentag", name |-> "b", at |-> j - 1]>>
                       \o ParserEvents(s, j + Len(B_OPEN), <<"b">> \o stack)

\* the handlers with an onopentag that never records the start offset
RECURSIVE RangesFromStartZero(_, _, _)
RangesFromStartZero(events, start, ranges) ==
    IF events = <<>> THEN ranges
    ELSE LET e == Head(events)
             named == e.name \in {"script", "style"}
         IN IF e.event = "opentag"
            THEN RangesFromStartZero(Tail(events), start, ranges)
            ELSE RangesFromStartZero(Tail(events), start,
                            IF named THEN Append(ranges, <<start, e.at>>) ELSE ranges)

\* the onopentag / onclosetag handlers folded over the events
RECURSIVE RangesFrom(_, _, _)
RangesFrom(events, start, ranges) ==
    IF events = <<>> THEN ranges
    ELSE LET e == Head(events)
             named == e.name \in {"script", "style"}
         IN IF e.event = "opentag"
            THEN RangesFrom(Tail(events), IF named THEN e.at ELSE start, ranges)
            ELSE RangesFrom(Tail(events), start,
                            IF named THEN Append(ranges, <<start, e.at>>) ELSE ranges)

getScriptStyleRanges(s) == RangesFrom(ParserEvents(s, 1, <<>>), 0, <<>>)

\* inScriptStyleTag without the comparison against the range start
inScriptStyleTagNoStart(ranges, idx) ==
    \E r \in 1..Len(ranges) : idx <= ranges[r][2]

inScriptStyleTag(ranges, idx) ==
    \E r \in 1..Len(ranges) : idx >= ranges[r][1] /\ idx <= ranges[r][2]

(***************************************************************************)
(* Token transformer                                                       *)
(***************************************************************************)
\* content.match(/(\S+)(\s+)$/): match[1] is the last run of non-whitespace,
\* match[2] the whitespace that ends the content
wrapTrailingWhitespace(content, wrapper) ==
    LET n == Len(content)
        nonWs == {i \in 1..n : content[i] \notin Whitespace}
    IN IF nonWs = {} \/ Max(nonWs) = n
       THEN content \o wrapper
       ELSE LET last == Max(nonWs)
                ws == {i \in 1..last : content[i] \in Whitespace}
                first == IF ws = {} THEN 1 ELSE Max(ws) + 1
            IN SubSeq(content, first, last) \o wrapper \o SubSeq(content, last + 1, n)

\* processToken returning the length of what it emits
processTokenOutputLength(token, isInScriptStyleTag) ==
    IF ~token.tuple THEN [strings |-> <<token.content>>, length |-> Len(token.content)]
    ELSE IF token.content = <<>> THEN [strings |-> <<>>, length |-> 0]
    ELSE LET content == token.content
             out ==
                IF isInScriptStyleTag
                THEN IF IsOpenTag(token) THEN COMMENT_START_CODE \o content
                     ELSE IF IsCloseTag(token) THEN wrapTrailingWhitespace(content, COMMENT_END_CODE)
                     ELSE IF IsInlineHtml(token) THEN content
                     ELSE escapeTokenContent(content, FALSE)
                ELSE IF IsOpenTag(token) THEN COMMENT_START_MARKUP \o content
                     ELSE IF IsCloseTag(token) THEN wrapTrailingWhitespace(content, COMMENT_END_MARKUP)
                     ELSE IF IsInlineHtml(token) THEN content
                     ELSE escapeTokenContent(content, TRUE)
         IN [strings |-> <<out>>, length |-> Len(out)]

processToken(token, isInScriptStyleTag) ==
    IF ~token.tuple THEN [strings |-> <<token.content>>, length |-> Len(token.content)]
    ELSE IF token.content = <<>> THEN [strings |-> <<>>, length |-> 0]
    ELSE LET content == token.content
             out ==
                IF isInScriptStyleTag
                THEN IF IsOpenTag(token) THEN COMMENT_START_CODE \o content
                     ELSE IF IsCloseTag(token) THEN wrapTrailingWhitespace(content, COMMENT_END_CODE)
                     ELSE IF IsInlineHtml(token) THEN content
                     ELSE escapeTokenContent(content, FALSE)
                ELSE IF IsOpenTag(token) THEN COMMENT_START_MARKUP \o content
                     ELSE IF IsCloseTag(token) THEN wrapTrailingWhitespace(content, COMMENT_END_MARKUP)
                     ELSE IF IsInlineHtml(token) THEN content
                     ELSE escapeTokenContent(content, TRUE)
         IN [strings |-> <<out>>, length |-> Len(content)]

\* the "Append closing tag if needed" tail of preAction
closingTag(toks) ==
    IF toks = <<>> THEN <<>>
    ELSE LET lastToken == toks[Len(toks)]
         IN IF lastToken.tuple /\ lastToken.type \notin {"T_CLOSE_TAG", "T_INLINE_HTML"}
            THEN <<SYNTHETIC_CLOSE>>
            ELSE <<>>

(***************************************************************************)
(* Options                                                                 *)
(***************************************************************************)
OptionKeys == {"contentUnformatted", "unformatted", "extraLiners"}

Absent == [kind |-> "absent", val |-> <<>>]
Null == [kind |-> "null", val |-> <<>>]
Undefined == [kind |-> "undefined", val |-> <<>>]
StringValue(s) == [kind |-> "string", val |-> s]
ArrayValue(names) == [kind |-> "array", val |-> names]

NAME_PRE == <<"p", "r", "e">>
NAME_CODE == <<"c", "o", "d", "e">>

OptionValues ==
    { Absent, Null,
      StringValue(<<>>),
      StringValue(<<" ", "P", "r", "e", " ", ",", "C", "O", "D", "E">>),
      ArrayValue(<<NAME_PRE, NAME_CODE>>) }

DefaultOptions == [k \in OptionKeys |-> Absent]

defaultUnformattedTags == ArrayValue(<<
        <<"a", "r", "e", "a">>,
        <<"b", "a", "s", "e">>,
        <<"b", "r">>,
        <<"c", "o", "l">>,
        <<"e", "m", "b", "e", "d">>,
        <<"h", "r">>,
        <<"i", "m", "g">>,
        <<"i", "n", "p", "u", "t">>,
        <<"k", "e", "y", "g", "e", "n">>,
        <<"l", "i", "n", "k">>,
        <<"m", "e", "n", "u", "i", "t", "e", "m">>,
        <<"m", "e", "t", "a">>,
        <<"p", "a", "r", "a", "m">>,
        <<"s", "o", "u", "r", "c", "e">>,
        <<"t", "r", "a", "c", "k">>,
        <<"w", "b", "r">>,
        <<"!", "d", "o", "c", "t", "y", "p", "e">>,
        <<"?", "x", "m", "l">>,
        <<"?", "p", "h", "p">>,
        <<"?", "=">>,
        <<"b", "a", "s", "e", "f", "o", "n", "t">>,
        <<"i", "s", "i", "n", "d", "e", "x">> >>)

getFormatOption(opts, key, defaultValue) ==
    IF opts[key].kind # "absent" /\ opts[key].kind # "null" THEN opts[key] ELSE defaultValue

getTagsFormatOption(opts, key, defaultValue) ==
    LET list == getFormatOption(opts, key, Undefined)
    IN IF list.kind # "string" THEN defaultValue
       ELSE IF Len(list.val) > 0
       THEN LET parts == SplitComma(list.val)
            IN ArrayValue([i \in 1..Len(parts) |-> ToLowerCase(Trim(parts[i]))])
       ELSE ArrayValue(<<>>)

NoHtmlOptions == [content_unformatted |-> Undefined, extra_liners |-> Undefined,
                  unformatted |-> Undefined]

(***************************************************************************)
(* Beautify orchestrator                                                   *)
(***************************************************************************)
\* isEntirePhpCodeBlock without the test on where the close delimiter ends
isEntirePhpCodeBlockNoEndTest(t) ==
    LET indexOfPhp == IndexOf(t, OPEN_PHP)
        indexOfEndPhp == IndexOf(t, CLOSE_PHP)
    IN /\ indexOfPhp > -1
       /\ indexOfPhp = LastIndexOf(t, OPEN_PHP)
       /\ indexOfEndPhp = LastIndexOf(t, CLOSE_PHP)

isEntirePhpCodeBlock(t) ==
    LET indexOfPhp == IndexOf(t, OPEN_PHP)
        indexOfEndPhp == IndexOf(t, CLOSE_PHP)
    IN /\ indexOfPhp > -1
       /\ indexOfPhp = LastIndexOf(t, OPEN_PHP)
       /\ indexOfEndPhp = LastIndexOf(t, CLOSE_PHP)
       /\ (indexOfEndPhp = -1 \/ indexOfEndPhp + 3 = Len(t))

\* text.replace(/^\s+<\?php/i, '<?php')
removeLeadingSpaces(t) ==
    LET w == WsRun(t, 1)
    IN IF /\ w >= 1
          /\ w + Len(OPEN_PHP) <= Len(t)
          /\ ToLowerCase(SubSeq(t, w + 1, w + Len(OPEN_PHP))) = OPEN_PHP
       THEN OPEN_PHP \o SubSeq(t, w + Len(OPEN_PHP) + 1, Len(t))
       ELSE t

\* the external beautifier: it returns the text unchanged, or indents what
\* follows each newline as the test double of js-beautify does
BeautifierModes == {"identity", "indent"}

beautifyHtml(p, mode) ==
    IF mode = "identity" THEN p
    ELSE ReplaceAll(p, <<"\n">>, <<"\n", " ", " ">>)

BeautifyFastPath ==
    /\ pc = "beautify"
    /\ isEntirePhpCodeBlock(text)
    /\ result' = removeLeadingSpaces(text)
    /\ path' = "fast"
    /\ pc' = "done"
    /\ UNCHANGED <<text, options, tokens, beautifier, scriptStyleRanges, strArr, index,
                   tokenPos, php, htmlOptions, beautified>>
    /\ UNCHANGED <<codecVars, formatVars, extraVars>>

BeautifyFullPath ==
    /\ pc = "beautify"
    /\ ~isEntirePhpCodeBlock(text)
    /\ htmlOptions' =
          [content_unformatted |-> getTagsFormatOption(options, "contentUnformatted", Undefined),
           extra_liners |-> getTagsFormatOption(options, "extraLiners", Undefined),
           unformatted |-> getTagsFormatOption(options, "unformatted", defaultUnformattedTags)]
    /\ path' = "full"
    /\ pc' = "preAction"
    /\ UNCHANGED <<text, options, tokens, beautifier, scriptStyleRanges, strArr, index,
                   tokenPos, php, beautified, result>>
    /\ UNCHANGED <<codecVars, formatVars, extraVars>>

\* preAction up to the for-of loop
PreActionStart ==
    /\ pc = "preAction"
    /\ scriptStyleRanges' = getScriptStyleRanges(text)
    /\ strArr' = <<>>
    /\ index' = 0
    /\ tokenPos' = 1
    /\ pc' = "loop"
    /\ UNCHANGED <<text, options, tokens, beautifier, path, php, htmlOptions, beautified, result>>
    /\ UNCHANGED <<codecVars, formatVars, extraVars>>

\* one iteration of the for-of loop
PreActionToken ==
    /\ pc = "loop"
    /\ tokenPos <= Len(tokens)
    /\ LET isInScriptStyleTag == inScriptStyleTag(scriptStyleRanges, index)
           r == processToken(tokens[tokenPos], isInScriptStyleTag)
       IN /\ strArr' = strArr \o r.strings
          /\ index' = index + r.length
    /\ tokenPos' = tokenPos + 1
    /\ UNCHANGED <<text, options, tokens, beautifier, pc, path, scriptStyleRanges, php,
                   htmlOptions, beautified, result>>
    /\ UNCHANGED <<codecVars, formatVars, extraVars>>

\* after the loop: append the closing tag if needed, join
PreActionReturn ==
    /\ pc = "loop"
    /\ tokenPos > Len(tokens)
    /\ strArr' = strArr \o closingTag(tokens)
    /\ php' = Flatten(strArr')
    /\ pc' = "beautifyHtml"
    /\ UNCHANGED <<text, options, tokens, beautifier, path, scriptStyleRanges, index,
                   tokenPos, htmlOptions, beautified, result>>
    /\ UNCHANGED <<codecVars, formatVars, extraVars>>

BeautifyHtml ==
    /\ pc = "beautifyHtml"
    /\ beautified' = beautifyHtml(php, beautifier)
    /\ pc' = "afterAction"
    /\ UNCHANGED <<text, options, tokens, beautifier, path, scriptStyleRanges, strArr, index,
                   tokenPos, php, htmlOptions, result>>
    /\ UNCHANGED <<codecVars, formatVars, extraVars>>

AfterAction ==
    /\ pc = "afterAction"
    /\ result' = afterAction(beautified)
    /\ pc' = "done"
    /\ UNCHANGED <<text, options, tokens, beautifier, path, scriptStyleRanges, strArr, index,
                   tokenPos, php, htmlOptions, beautified>>
    /\ UNCHANGED <<codecVars, formatVars, extraVars>>

BeautifyIdle ==
    /\ pc = "idle" /\ path = "none" /\ text = <<>> /\ tokens = <<>>
    /\ options = DefaultOptions /\ beautifier = "identity"
    /\ scriptStyleRanges = <<>> /\ strArr = <<>> /\ index = 0 /\ tokenPos = 0
    /\ php = <<>> /\ htmlOptions = NoHtmlOptions /\ beautified = <<>> /\ result = <<>>

BeautifyInit(streams, optionSet) ==
    /\ tokens \in streams
    /\ text = TextOf(tokens)
    /\ options \in optionSet
    /\ beautifier \in BeautifierModes
    /\ pc = "beautify" /\ path = "none"
    /\ scriptStyleRanges = <<>> /\ strArr = <<>> /\ index = 0 /\ tokenPos = 0
    /\ php = <<>> /\ htmlOptions = NoHtmlOptions /\ beautified = <<>> /\ result = <<>>

(***************************************************************************)
(* The codec on its own: decode(encode(s, b))                              *)
(***************************************************************************)
CodecPieces ==
    { <<"a">>, <<"\"">>, <<"'">>, MARKUP_END, CODE_END, QUOTE_DOUBLE, COMMENT_END }

RECURSIVE CodecStrings(_)
CodecStrings(n) ==
    IF n = 0 THEN {<<>>}
    ELSE {<<>>} \cup {p \o rest : p \in CodecPieces, rest \in CodecStrings(n - 1)}

CodecIdle ==
    /\ codecPc = "idle" /\ codecS = <<>> /\ codecB = FALSE
    /\ codecEncoded = <<>> /\ codecDecoded = <<>>

CodecInit ==
    /\ codecS \in CodecStrings(MaxCodecPieces)
    /\ codecB \in BOOLEAN
    /\ codecPc = "start"
    /\ codecEncoded = <<>> /\ codecDecoded = <<>>

CodecEncode ==
    /\ codecPc = "start"
    /\ codecEncoded' = escapeTokenContent(codecS, codecB)
    /\ codecPc' = "encoded"
    /\ UNCHANGED <<codecS, codecB, codecDecoded>>
    /\ UNCHANGED <<beautifyVars, formatVars, extraVars>>

CodecDecode ==
    /\ codecPc = "encoded"
    /\ codecDecoded' = afterAction(codecEncoded)
    /\ codecPc' = "decoded"
    /\ UNCHANGED <<codecS, codecB, codecEncoded>>
    /\ UNCHANGED <<beautifyVars, formatVars, extraVars>>

(***************************************************************************)
(* FormattingService.format                                                *)
(*                                                                         *)
(* An async function runs synchronously up to its first await, so a call   *)
(* takes one step from its entry to `await runAsync(...)` (or to the       *)
(* rejection that ends it earlier) and one step when the process settles.  *)
(***************************************************************************)
Calls == 1..MaxCalls

\* what the fixer process did: its exit code, what its stdout holds and the
\* number of non-empty lines of its stderr (a failed process is represented by
\* one outcome: format() reads neither stream of it before it throws)
StderrLineCounts == {0, 1, 2}
ProcessOutcomes ==
    { o \in [exitCode : {0, 1}, stdout : {"files", "no files", "not json"},
             stderrLines : StderrLineCounts] :
        o.exitCode # 0 => (o.stdout = "not json" /\ o.stderrLines = 1) }

\* no fixer process has settled yet
NoneSettled == [call |-> 0, exitCode |-> -1, stdout |-> "none", stderrLines |-> 0]

\* the fixer process of call c has settled with outcome o
Settled(c, o) ==
    [call |-> c, exitCode |-> o.exitCode, stdout |-> o.stdout, stderrLines |-> o.stderrLines]

IdleCall == [pc |-> "idle", isPartial |-> FALSE, isDiff |-> FALSE, error |-> "none",
             value |-> "none"]

StartedCall(isPartial, isDiff) ==
    [pc |-> "awaiting", isPartial |-> isPartial, isDiff |-> isDiff, error |-> "none",
     value |-> "none"]

RejectedCall(isPartial, isDiff, error) ==
    [pc |-> "rejected", isPartial |-> isPartial, isDiff |-> isDiff, error |-> error,
     value |-> "none"]

\* format() is entered for call c: the calls are numbered in the order in
\* which they are made
isNextCall(c) == calls[c].pc = "idle" /\ \A d \in 1..(c - 1) : calls[d].pc # "idle"

\* the guard at the entry of format()
guardRejects(running, isPartial) == running /\ ~isPartial

\* the finally block: what is left of the temp directories
finallyTmpDirs(dirs, c, isPartial, isDiff) ==
    IF ~isDiff /\ ~isPartial THEN dirs \ {c} ELSE dirs

FormatIdle ==
    /\ isRunning = FALSE /\ calls = [c \in Calls |-> IdleCall] /\ tmpDirs = {}
    /\ partialFile = 0 /\ filesWritten = 0 /\ spawned = 0 /\ settled = NoneSettled

\* `if (this.isRunning && !isPartial) return Promise.reject(...)`; isDiff is not
\* read before the call rejects
FormatAlreadyRunning(c) ==
    /\ isNextCall(c)
    /\ guardRejects(isRunning, FALSE)
    /\ calls' = [calls EXCEPT ![c] = RejectedCall(FALSE, FALSE, "php-cs-fixer is already running")]
    /\ UNCHANGED <<isRunning, tmpDirs, partialFile, filesWritten, spawned, settled>>
    /\ UNCHANGED <<beautifyVars, codecVars, extraVars>>

\* no temp directory can be made: isRunning is reset and the call rejects
FormatNoTmpDir(c) ==
    /\ isNextCall(c)
    /\ ~guardRejects(isRunning, FALSE)
    /\ isRunning' = FALSE
    /\ calls' = [calls EXCEPT ![c] = RejectedCall(FALSE, FALSE, "can't make tmp dir")]
    /\ UNCHANGED <<tmpDirs, partialFile, filesWritten, spawned, settled>>
    /\ UNCHANGED <<beautifyVars, codecVars, extraVars>>

\* fs.writeFileSync throws: it is called before the try block
FormatWriteFails(c, isPartial, isDiff) ==
    /\ isNextCall(c)
    /\ ~guardRejects(isRunning, isPartial)
    /\ isRunning' = TRUE
    /\ tmpDirs' = IF isPartial THEN tmpDirs ELSE tmpDirs \cup {c}
    /\ calls' = [calls EXCEPT ![c] = RejectedCall(isPartial, isDiff, "write failed")]
    /\ UNCHANGED <<partialFile, filesWritten, spawned, settled>>
    /\ UNCHANGED <<beautifyVars, codecVars, extraVars>>

\* getRealExecutablePath yields nothing: throw inside try, then catch, finally
FormatNoExecutable(c, isPartial, isDiff) ==
    /\ isNextCall(c)
    /\ ~guardRejects(isRunning, isPartial)
    /\ isRunning' = FALSE
    /\ tmpDirs' = finallyTmpDirs(IF isPartial THEN tmpDirs ELSE tmpDirs \cup {c},
                                 c, isPartial, isDiff)
    /\ partialFile' = IF isPartial THEN c ELSE partialFile
    /\ filesWritten' = filesWritten + 1
    /\ calls' = [calls EXCEPT ![c] = RejectedCall(isPartial, isDiff, "executablePath not found")]
    /\ UNCHANGED <<spawned, settled>>
    /\ UNCHANGED <<beautifyVars, codecVars, extraVars>>

\* the call reaches `await runAsync(realExecutablePath, args, opts)`
FormatSpawn(c, isPartial, isDiff) ==
    /\ isNextCall(c)
    /\ ~guardRejects(isRunning, isPartial)
    /\ isRunning' = TRUE
    /\ tmpDirs' = IF isPartial THEN tmpDirs ELSE tmpDirs \cup {c}
    /\ partialFile' = IF isPartial THEN c ELSE partialFile
    /\ filesWritten' = filesWritten + 1
    /\ spawned' = spawned + 1
    /\ calls' = [calls EXCEPT ![c] = StartedCall(isPartial, isDiff)]
    /\ UNCHANGED settled
    /\ UNCHANGED <<beautifyVars, codecVars, extraVars>>

\* the value format() resolves with once runAsync has settled, "none" when it
\* throws: runAsync rejects on a non-zero exit code; then `if (isDiff) return
\* filePath`, JSON.parse(stdout), `result.files.length > 0`, `lines.length > 1`
formatValueIgnoringStderr(isDiff, outcome) ==
    IF outcome.exitCode # 0 THEN "none"
    ELSE IF isDiff THEN "filePath"
    ELSE IF outcome.stdout = "not json" THEN "none"
    ELSE IF outcome.stdout = "files" THEN "file content"
    ELSE "text"

formatValue(isDiff, outcome) ==
    IF outcome.exitCode # 0 THEN "none"
    ELSE IF isDiff THEN "filePath"
    ELSE IF outcome.stdout = "not json" THEN "none"
    ELSE IF outcome.stdout = "files" THEN "file content"
    ELSE IF outcome.stderrLines > 1 THEN "none"
    ELSE "text"

\* the error format() rejects with once runAsync has settled
formatError(isDiff, outcome) ==
    IF outcome.exitCode # 0 THEN "ProcessError"
    ELSE IF outcome.stdout = "not json" THEN "SyntaxError"
    ELSE "stderr"

\* runAsync settles: the rest of the try block, catch, finally
FormatSettle(c, outcome) ==
    /\ calls[c].pc = "awaiting"
    /\ LET v == formatValue(calls[c].isDiff, outcome)
       IN calls' = [calls EXCEPT ![c].pc = IF v = "none" THEN "rejected" ELSE "resolved",
                                 ![c].value = v,
                                 ![c].error = IF v = "none"
                                              THEN formatError(calls[c].isDiff, outcome)
                                              ELSE "none"]
    /\ settled' = Settled(c, outcome)
    /\ isRunning' = FALSE
    /\ tmpDirs' = finallyTmpDirs(tmpDirs, c, calls[c].isPartial, calls[c].isDiff)
    /\ UNCHANGED <<partialFile, filesWritten, spawned>>
    /\ UNCHANGED <<beautifyVars, codecVars, extraVars>>

FormatNext ==
    \/ \E c \in Calls : FormatAlreadyRunning(c)
    \/ \E c \in Calls : FormatNoTmpDir(c)
    \/ \E c \in Calls, isPartial \in BOOLEAN, isDiff \in BOOLEAN : FormatWriteFails(c, isPartial, isDiff)
    \/ \E c \in Calls, isPartial \in BOOLEAN, isDiff \in BOOLEAN : FormatNoExecutable(c, isPartial, isDiff)
    \/ \E c \in Calls, isPartial \in BOOLEAN, isDiff \in BOOLEAN : FormatSpawn(c, isPartial, isDiff)
    \/ \E c \in Calls, outcome \in ProcessOutcomes : FormatSettle(c, outcome)


(***************************************************************************)
(* runAsync                                                                *)
(***************************************************************************)
\* a string that may be undefined
UndefinedString == [defined |-> FALSE, str |-> <<>>]
DefinedString(chars) == [defined |-> TRUE, str |-> chars]

\* BufferCollector: `private buffer: Buffer | null = null`
NullBuffer == [isNull |-> TRUE, data |-> <<>>]

\* append: `this.buffer = this.buffer ? Buffer.concat([this.buffer, data]) : data`
\* (a Buffer object is truthy, whatever its length)
append(buffer, data) ==
    IF buffer.isNull THEN [isNull |-> FALSE, data |-> data]
    ELSE [isNull |-> FALSE, data |-> buffer.data \o data]

\* toString: `this.buffer?.toString()`
collectorToString(buffer) ==
    IF buffer.isNull THEN UndefinedString ELSE DefinedString(buffer.data)

ProcessError(exitCode, stdout, stderr) ==
    [kind |-> "ProcessError", exitCode |-> exitCode, stdout |-> stdout, stderr |-> stderr]

EmittedError(err) == [kind |-> "error", err |-> err]

createProcessResult(exitCode, stdout, stderr) ==
    IF exitCode = 0
    THEN [kind |-> "output", stdout |-> collectorToString(stdout),
          stderr |-> collectorToString(stderr)]
    ELSE ProcessError(exitCode, collectorToString(stdout), collectorToString(stderr))

\* the resolve and reject functions of a promise: they act on a pending promise
\* only
PendingPromise == [state |-> "pending", value |-> [kind |-> "none"]]
settleAlways(promise, state, value) == [state |-> state, value |-> value]
settle(promise, state, value) ==
    IF promise.state = "pending" THEN [state |-> state, value |-> value] ELSE promise

\* cleanup removes onError and onClose; the listeners that were attached are
\* the wrappers handleError and handleClose
cleanup(listeners) == listeners \ {"onError", "onClose"}

Chunks == { <<"a">>, <<"b", "c">>, <<>> }
ExitCodes == {0, 1, 16}
Errors == {"ENOENT", "EPIPE"}

RunIdle ==
    /\ raPc = "idle" /\ raPromise = PendingPromise
    /\ stdoutCollector = NullBuffer /\ stderrCollector = NullBuffer
    /\ raListeners = {} /\ raEvents = <<>>
    /\ raChunks = [stdout |-> <<>>, stderr |-> <<>>]

\* runAsync up to `return new Promise(...)`: spawn, collectors, listeners
RunAsyncSpawn ==
    /\ raPc = "idle"
    /\ raPc' = "listening"
    /\ raPromise' = PendingPromise
    /\ stdoutCollector' = NullBuffer /\ stderrCollector' = NullBuffer
    /\ raListeners' = {"handleError", "handleClose"}
    /\ UNCHANGED <<raEvents, raChunks>>
    /\ UNCHANGED exceptRun

\* the child has not emitted 'close' yet
childOpen == \A i \in 1..Len(raEvents) : raEvents[i].kind # "close"

\* child.stdout.on('data', ...)
StdoutData(data) ==
    /\ raPc = "listening" /\ childOpen
    /\ Len(raChunks.stdout) < MaxChunks
    /\ stdoutCollector' = append(stdoutCollector, data)
    /\ raChunks' = [raChunks EXCEPT !.stdout = Append(@, data)]
    /\ UNCHANGED <<raPc, raPromise, stderrCollector, raListeners, raEvents>>
    /\ UNCHANGED exceptRun

\* child.stderr.on('data', ...)
StderrData(data) ==
    /\ raPc = "listening" /\ childOpen
    /\ Len(raChunks.stderr) < MaxChunks
    /\ stderrCollector' = append(stderrCollector, data)
    /\ raChunks' = [raChunks EXCEPT !.stderr = Append(@, data)]
    /\ UNCHANGED <<raPc, raPromise, stdoutCollector, raListeners, raEvents>>
    /\ UNCHANGED exceptRun

\* the child emits 'error': handleError runs onError, which cleans up and
\* throws; the wrapper rejects
ChildError(err) ==
    /\ raPc = "listening" /\ childOpen
    /\ Len(raEvents) < MaxEvents
    /\ raEvents' = Append(raEvents, EmittedError(err))
    /\ IF "handleError" \in raListeners
       THEN /\ raListeners' = cleanup(raListeners)
            /\ raPromise' = settle(raPromise, "rejected", EmittedError(err))
       ELSE UNCHANGED <<raListeners, raPromise>>
    /\ UNCHANGED <<raPc, stdoutCollector, stderrCollector, raChunks>>
    /\ UNCHANGED exceptRun

\* the child emits 'close': handleClose runs onClose, which cleans up and
\* returns the output or throws the ProcessError; the wrapper resolves or
\* rejects
ChildClose(code) ==
    /\ raPc = "listening" /\ childOpen
    /\ Len(raEvents) < MaxEvents
    /\ raEvents' = Append(raEvents, [kind |-> "close", code |-> code])
    /\ IF "handleClose" \in raListeners
       THEN LET res == createProcessResult(code, stdoutCollector, stderrCollector)
            IN /\ raListeners' = cleanup(raListeners)
               /\ raPromise' = settle(raPromise,
                                      IF res.kind = "ProcessError" THEN "rejected"
                                                                   ELSE "resolved",
                                      res)
       ELSE UNCHANGED <<raListeners, raPromise>>
    /\ UNCHANGED <<raPc, stdoutCollector, stderrCollector, raChunks>>
    /\ UNCHANGED exceptRun

RunNext ==
    \/ RunAsyncSpawn
    \/ \E data \in Chunks : StdoutData(data)
    \/ \E data \in Chunks : StderrData(data)
    \/ \E err \in Errors : ChildError(err)
    \/ \E code \in ExitCodes : ChildClose(code)

(***************************************************************************)
(* downloadPhpCsFixerFile                                                  *)
(***************************************************************************)
FileStates == {"absent", "old", "partial", "new"}
StatusCodes == {404, 500}

NetworkError == [name |-> "Network error", status |-> 0]
FailedToDownload(status) == [name |-> "Failed to download", status |-> status]
FailedToReadResponse == [name |-> "Failed to read response", status |-> 0]
WriteFailed == [name |-> "Write failed", status |-> 0]
ENOENT == [name |-> "ENOENT", status |-> 0]
EACCES == [name |-> "EACCES", status |-> 0]
NoError == [name |-> "none", status |-> 0]

\* fs.unlink(outputPath): a missing file makes it reject with ENOENT; an
\* existing file is removed, or the removal is refused
unlinkOutcomes(file) == IF file = "absent" THEN {ENOENT} ELSE {NoError, EACCES}

DownloadIdle ==
    /\ dlPc = "idle" /\ dlFile = "absent" /\ dlCaught = NoError
    /\ dlPromise = PendingPromise /\ dlUnlinks = 0 /\ dlCalls = 0

DownloadInit ==
    /\ dlPc = "idle" /\ dlFile \in {"absent", "old"} /\ dlCaught = NoError
    /\ dlPromise = PendingPromise /\ dlUnlinks = 0 /\ dlCalls = 0

\* downloadPhpCsFixerFile(outputPath) up to `await fetch(url)`
DownloadStart ==
    /\ dlPc \in {"idle", "done"}
    /\ dlCalls < MaxDownloads
    /\ dlCalls' = dlCalls + 1
    /\ dlPc' = "fetch"
    /\ dlCaught' = NoError /\ dlPromise' = PendingPromise /\ dlUnlinks' = 0
    /\ UNCHANGED dlFile
    /\ UNCHANGED exceptDownload

\* the catch block up to `await fs.unlink(outputPath)`
catch(err) ==
    /\ dlCaught' = err
    /\ dlUnlinks' = dlUnlinks + 1
    /\ dlPc' = "unlink"
    /\ UNCHANGED <<dlFile, dlPromise, dlCalls>>

\* fetch rejects
FetchRejects ==
    /\ dlPc = "fetch"
    /\ catch(NetworkError)
    /\ UNCHANGED exceptDownload

\* fetch resolves: `if (!response.ok) throw`, else `await response.arrayBuffer()`
FetchResolves(ok, status) ==
    /\ dlPc = "fetch"
    /\ IF ok
       THEN /\ dlPc' = "arrayBuffer"
            /\ UNCHANGED <<dlFile, dlCaught, dlPromise, dlUnlinks, dlCalls>>
       ELSE catch(FailedToDownload(status))
    /\ UNCHANGED exceptDownload

\* response.arrayBuffer() settles; on success `await fs.writeFile(...)`
ArrayBufferSettles(ok) ==
    /\ dlPc = "arrayBuffer"
    /\ IF ok
       THEN /\ dlPc' = "writeFile"
            /\ UNCHANGED <<dlFile, dlCaught, dlPromise, dlUnlinks, dlCalls>>
       ELSE catch(FailedToReadResponse)
    /\ UNCHANGED exceptDownload

\* fs.writeFile resolves: the function returns
WriteFileResolves ==
    /\ dlPc = "writeFile"
    /\ dlFile' = "new"
    /\ dlPromise' = settle(dlPromise, "resolved", NoError)
    /\ dlPc' = "done"
    /\ UNCHANGED <<dlCaught, dlUnlinks, dlCalls>>
    /\ UNCHANGED exceptDownload

\* fs.writeFile rejects, having left the file alone or having written a part
\* of it
WriteFileRejects(left) ==
    /\ dlPc = "writeFile"
    /\ left \in {dlFile, "partial"}
    /\ dlFile' = left
    /\ dlCaught' = WriteFailed
    /\ dlUnlinks' = dlUnlinks + 1
    /\ dlPc' = "unlink"
    /\ UNCHANGED <<dlPromise, dlCalls>>
    /\ UNCHANGED exceptDownload

\* `await fs.unlink(outputPath)` settles: if it rejects, its error leaves the
\* catch block; otherwise `throw err`
UnlinkSettles(outcome) ==
    /\ dlPc = "unlink"
    /\ outcome \in unlinkOutcomes(dlFile)
    /\ dlFile' = IF outcome = NoError THEN "absent" ELSE dlFile
    /\ dlPromise' = settle(dlPromise, "rejected",
                           IF outcome = NoError THEN dlCaught ELSE outcome)
    /\ dlPc' = "done"
    /\ UNCHANGED <<dlCaught, dlUnlinks, dlCalls>>
    /\ UNCHANGED exceptDownload

DownloadNext ==
    \/ DownloadStart
    \/ FetchRejects
    \/ \E ok \in BOOLEAN, status \in StatusCodes : FetchResolves(ok, status)
    \/ \E ok \in BOOLEAN : ArrayBufferSettles(ok)
    \/ WriteFileResolves
    \/ \E left \in FileStates : WriteFileRejects(left)
    \/ \E outcome \in {NoError, ENOENT, EACCES} : UnlinkSettles(outcome)

(***************************************************************************)
(* output module                                                           *)
(***************************************************************************)
\* window.createOutputChannel('php-cs-fixer')
NewChannel == [disposals |-> 0, lines |-> 0, visible |-> FALSE]
\* window.createStatusBarItem(StatusBarAlignment.Left, -10_000_000)
NewItem == [disposals |-> 0, visible |-> FALSE, text |-> ""]

StatusTexts == {"formatting", "failed"}

\* getOutput creates a channel `if (outputChannel == null)`
getOutputCreatesAlways(channel) == TRUE
getOutputCreates(channel) == channel = 0

\* getOutput(): the module variable and the channels after the call
getOutput(channel, chs) ==
    IF getOutputCreates(channel)
    THEN [outputChannel |-> Len(chs) + 1, channels |-> Append(chs, NewChannel)]
    ELSE [outputChannel |-> channel, channels |-> chs]

OutputIdle ==
    /\ outputChannel = 0 /\ statusBarItem = 0
    /\ channels = <<>> /\ items = <<>>
    /\ outThrew = FALSE /\ outCalls = 0

outputCall ==
    /\ outCalls < MaxOutputCalls
    /\ outCalls' = outCalls + 1

\* output(str): getOutput().appendLine(str)
Output ==
    /\ outputCall
    /\ LET g == getOutput(outputChannel, channels)
       IN /\ outputChannel' = g.outputChannel
          /\ channels' = [g.channels EXCEPT ![g.outputChannel].lines = @ + 1]
    /\ UNCHANGED <<statusBarItem, items, outThrew>>
    /\ UNCHANGED exceptOutput

\* showOutput(): getOutput().show(true)
ShowOutput ==
    /\ outputCall
    /\ LET g == getOutput(outputChannel, channels)
       IN /\ outputChannel' = g.outputChannel
          /\ channels' = [g.channels EXCEPT ![g.outputChannel].visible = TRUE]
    /\ UNCHANGED <<statusBarItem, items, outThrew>>
    /\ UNCHANGED exceptOutput

\* clearOutput(): getOutput().clear()
ClearOutput ==
    /\ outputCall
    /\ LET g == getOutput(outputChannel, channels)
       IN /\ outputChannel' = g.outputChannel
          /\ channels' = [g.channels EXCEPT ![g.outputChannel].lines = 0]
    /\ UNCHANGED <<statusBarItem, items, outThrew>>
    /\ UNCHANGED exceptOutput

\* statusInfo(str)
StatusInfo(str) ==
    /\ outputCall
    /\ LET created == statusBarItem = 0
           item == IF created THEN Len(items) + 1 ELSE statusBarItem
           its == IF created THEN Append(items, NewItem) ELSE items
       IN /\ statusBarItem' = item
          /\ items' = [its EXCEPT ![item].visible = TRUE, ![item].text = str]
    /\ UNCHANGED <<outputChannel, channels, outThrew>>
    /\ UNCHANGED exceptOutput

\* `ref?.method()` and `if (ref) ref.method()`: the method is called only on
\* a reference that is not null; a method called on null throws a TypeError
isCalled(ref) == ref # 0
throws(called, ref) == called /\ ref = 0

\* hideStatusBar(): statusBarItem?.hide()
HideStatusBar ==
    /\ outputCall
    /\ LET called == isCalled(statusBarItem)
       IN /\ items' = IF called /\ statusBarItem # 0
                      THEN [items EXCEPT ![statusBarItem].visible = FALSE]
                      ELSE items
          /\ outThrew' = (outThrew \/ throws(called, statusBarItem))
    /\ UNCHANGED <<outputChannel, statusBarItem, channels>>
    /\ UNCHANGED exceptOutput

\* disposeOutput()
DisposeOutput ==
    /\ outputCall
    /\ channels' = IF isCalled(outputChannel) /\ outputChannel # 0
                   THEN [channels EXCEPT ![outputChannel].lines = 0,
                                         ![outputChannel].disposals = @ + 1]
                   ELSE channels
    /\ items' = IF isCalled(statusBarItem) /\ statusBarItem # 0
                THEN [items EXCEPT ![statusBarItem].visible = FALSE,
                                   ![statusBarItem].disposals = @ + 1]
                ELSE items
    /\ outputChannel' = 0
    /\ statusBarItem' = 0
    /\ outThrew' = (\/ outThrew
                    \/ throws(isCalled(outputChannel), outputChannel)
                    \/ throws(isCalled(statusBarItem), statusBarItem))
    /\ UNCHANGED exceptOutput

OutputNext ==
    \/ Output
    \/ ShowOutput
    \/ ClearOutput
    \/ \E str \in StatusTexts : StatusInfo(str)
    \/ HideStatusBar
    \/ DisposeOutput

(***************************************************************************)
(* AutoFixService.doAutoFixByBracket                                       *)
(***************************************************************************)
\* the text of a content change: a deletion carries the empty text
ChangeTexts == { <<>>, <<"}">>, <<" ", "}">>, <<"a">>, <<"}", " ">> }

RECURSIVE SeqsUpTo(_, _)
SeqsUpTo(S, n) ==
    IF n = 0 THEN {<<>>}
    ELSE LET shorter == SeqsUpTo(S, n - 1)
         IN shorter \cup {Append(q, x) : q \in {r \in shorter : Len(r) = n - 1}, x \in S}

\* /^\s*\}$/.test(t)
isClosingBracket(t) ==
    /\ Len(t) >= 1
    /\ t[Len(t)] = "}"
    /\ \A i \in 1..(Len(t) - 1) : t[i] \in Whitespace

\* `if (pressedKey && !/^\s*\}$/.test(pressedKey)) return`: the empty string is
\* falsy
returnsForKey(pressedKey) == pressedKey # <<>> /\ ~isClosingBracket(pressedKey)

\* what the editor shows: how far jumpToBracket moves the cursor back
\* (offsetStart0 - offsetStart1), the character at the new position, whether
\* a selection exists after the edit, and whether the line of the opening
\* bracket (or the one before it) ends with a block keyword (searchIndex > -1)
Documents == [moved : {-4, 0, 2, 5}, nextChar : {"{", "("}, selections : {0, 1},
              keyword : BOOLEAN]

AutoFixIdle ==
    /\ afPc = "idle" /\ afEvent = <<>> /\ afEditor = FALSE
    /\ afDocument = [moved |-> 0, nextChar |-> "{", selections |-> 0, keyword |-> FALSE]
    /\ afCommands = <<>> /\ afFormatCalls = 0 /\ afEdits = 0 /\ afReplacement = <<>>

AutoFixInit ==
    /\ afPc = "idle"
    /\ afEvent \in SeqsUpTo(ChangeTexts, MaxChanges)
    /\ afEditor \in BOOLEAN
    /\ afDocument \in Documents
    /\ afCommands = <<>> /\ afFormatCalls = 0 /\ afEdits = 0 /\ afReplacement = <<>>

\* await commands.executeCommand(command)
executeCommand(command, next) ==
    /\ afCommands' = Append(afCommands, command)
    /\ afPc' = next

\* doAutoFixByBracket(event) up to its first await, or to its return
AutoFixStart ==
    /\ afPc = "idle"
    /\ IF \/ Len(afEvent) = 0
          \/ returnsForKey(afEvent[1])
          \/ ~afEditor
       THEN afPc' = "done" /\ UNCHANGED afCommands
       ELSE executeCommand("editor.action.jumpToBracket", "jumpToBracket")
    /\ UNCHANGED <<afEvent, afEditor, afDocument, afFormatCalls, afEdits, afReplacement>>
    /\ UNCHANGED exceptAutoFix

\* the offset tests after jumpToBracket, with the second one returning at once
afterJumpToBracketNoUndo(doc) ==
    IF doc.moved = 0 THEN "done"
    ELSE IF doc.moved < 3 \/ doc.nextChar # "{" THEN "done"
    ELSE "cursorUndo"

\* the offset tests after jumpToBracket: where the function goes next
afterJumpToBracket(doc) ==
    IF doc.moved = 0 THEN "done"
    ELSE IF doc.moved < 3 \/ doc.nextChar # "{" THEN "cursorUndo return"
    ELSE "cursorUndo"

\* after jumpToBracket
JumpToBracketDone ==
    /\ afPc = "jumpToBracket"
    /\ LET next == afterJumpToBracket(afDocument)
       IN IF next = "done"
          THEN afPc' = "done" /\ UNCHANGED afCommands
          ELSE executeCommand("cursorUndo", next)
    /\ UNCHANGED <<afEvent, afEditor, afDocument, afFormatCalls, afEdits, afReplacement>>
    /\ UNCHANGED exceptAutoFix

\* after the cursorUndo that precedes `return`
CursorUndoReturn ==
    /\ afPc = "cursorUndo return"
    /\ afPc' = "done"
    /\ UNCHANGED <<afEvent, afEditor, afDocument, afCommands, afFormatCalls, afEdits, afReplacement>>
    /\ UNCHANGED exceptAutoFix

\* after the second cursorUndo: `await this.formatting.format(...)`
CursorUndoDone ==
    /\ afPc = "cursorUndo"
    /\ afFormatCalls' = afFormatCalls + 1
    /\ afPc' = "format"
    /\ UNCHANGED <<afEvent, afEditor, afDocument, afCommands, afEdits, afReplacement>>
    /\ UNCHANGED exceptAutoFix

\* texts as sequences of lines; the block between the brackets is one line
PHP_LINE == "<?php"
SPLITER_LINE == "$__pcf__spliter=0;"
IF_LINE == "if(1)"
OriginalBlock == "{x;}"
FormattedBlock == "{ x; }"

\* `let code = '<?php\n$__pcf__spliter=0;\n'`, with `if(1)` appended when no
\* block keyword was found
code(doc) ==
    IF doc.keyword THEN <<PHP_LINE, SPLITER_LINE>> ELSE <<PHP_LINE, SPLITER_LINE, IF_LINE>>

originalText(doc) == code(doc) \o <<OriginalBlock>>

\* the first spliter line after a leading '<?php', 0 when there is none
spliterAt(fixed) ==
    LET hits == {i \in 2..Len(fixed) : fixed[i] = SPLITER_LINE}
    IN IF Len(fixed) >= 1 /\ fixed[1] = PHP_LINE /\ hits # {} THEN Min(hits) ELSE 0

\* dealFun: the text after the spliter line, or, with the `if(1)` scaffold, the
\* block that follows `if(1)` and '' when the text does not have that shape
dealFun(doc, fixed) ==
    LET i == spliterAt(fixed)
    IN IF doc.keyword
       THEN IF i = 0 THEN fixed ELSE SubSeq(fixed, i + 1, Len(fixed))
       ELSE IF i > 0 /\ Len(fixed) = i + 2 /\ fixed[i + 1] = IF_LINE
            THEN <<fixed[i + 2]>>
            ELSE <<>>

\* format settles: rejected (caught and logged), or resolved with the text it
\* was given or with the fixer's rewrite of the temp file
FormatOutcomes == {"rejected", "same", "different"}
formattedText(doc, outcome) ==
    IF outcome = "same" THEN originalText(doc) ELSE code(doc) \o <<FormattedBlock>>

\* `const fixedText = dealFun(text)`, the comparison and
\* `builder.replace(range, text)`
AutoFixFormatSettles(outcome) ==
    /\ afPc = "format"
    /\ LET text_ == formattedText(afDocument, outcome)
           fixedText == dealFun(afDocument, text_)
       IN IF outcome # "rejected" /\ fixedText # dealFun(afDocument, originalText(afDocument))
          THEN /\ afEdits' = afEdits + 1
               /\ afReplacement' = text_
               /\ afPc' = "edit"
          ELSE afPc' = "done" /\ UNCHANGED <<afEdits, afReplacement>>
    /\ UNCHANGED <<afEvent, afEditor, afDocument, afCommands, afFormatCalls>>
    /\ UNCHANGED exceptAutoFix

\* editor.edit settles: `if (editor.selections.length > 0)` cancelSelection
EditDone ==
    /\ afPc = "edit"
    /\ IF afDocument.selections > 0
       THEN executeCommand("cancelSelection", "cancelSelection")
       ELSE afPc' = "done" /\ UNCHANGED afCommands
    /\ UNCHANGED <<afEvent, afEditor, afDocument, afFormatCalls, afEdits, afReplacement>>
    /\ UNCHANGED exceptAutoFix

CancelSelectionDone ==
    /\ afPc = "cancelSelection"
    /\ afPc' = "done"
    /\ UNCHANGED <<afEvent, afEditor, afDocument, afCommands, afFormatCalls, afEdits, afReplacement>>
    /\ UNCHANGED exceptAutoFix

AutoFixNext ==
    \/ AutoFixStart
    \/ JumpToBracketDone
    \/ CursorUndoReturn
    \/ CursorUndoDone
    \/ \E outcome \in FormatOutcomes : AutoFixFormatSettles(outcome)
    \/ EditDone
    \/ CancelSelectionDone

(***************************************************************************)
(* loadConfig and FormattingService.getArgs                                *)
(***************************************************************************)
\* paths and values are sequences of segments; <<>> is the empty string
EmptyString == <<>>
NullPath == <<"null">>
UriFsPath == <<"workspace", "test.php">>
RootFsPath == "workspace"
TempFile == <<"tmp", "pcf-tmp", "test.php">>
ExecutablePaths == { <<"php-cs-fixer">>, <<"php ", "fixer.phar">>, <<"~", "fixer.phar">> }
ConfigLists == { <<>>, <<".php_cs">>, <<"", "/.php-cs-fixer.php", ".php_cs">> }
Settings == [executablePath : ExecutablePaths, config : ConfigLists,
             rules : {EmptyString, <<"@PSR12">>}, allowRisky : BOOLEAN,
             pathMode : {"override", "intersection"}]

\* resolveVscodeExpressions: a leading "~/" becomes the home directory, then
\* path.normalize, which turns the empty string into "."
resolveVscodeExpressions(input) ==
    IF input = EmptyString THEN <<".">>
    ELSE IF Head(input) = "~" THEN <<"home">> \o Tail(input)
    ELSE input

\* executablePath.endsWith('.phar') and .replace(/^php[^ ]* /i, '')
endsWithPhar(p) == p # EmptyString /\ p[Len(p)] = "fixer.phar"
withoutPhpPrefix(p) == IF Head(p) = "php " THEN Tail(p) ELSE p

\* loadConfig: pharPath is '' unless the executable is a phar
loadConfig(settings) ==
    LET executablePath == resolveVscodeExpressions(settings.executablePath)
        phar == endsWithPhar(executablePath)
    IN [executablePath |-> IF phar THEN <<"php">> ELSE executablePath,
        pharPath |-> IF phar THEN withoutPhpPrefix(executablePath) ELSE EmptyString,
        config |-> settings.config, rules |-> settings.rules,
        allowRisky |-> settings.allowRisky, pathMode |-> settings.pathMode]

\* the config files that may exist on disk
ConfigFileUniverse ==
    { <<"/.php-cs-fixer.php">>, <<RootFsPath, ".vscode", ".php_cs">>, <<RootFsPath, ".php_cs">> }
Environments == [filePath : {EmptyString, TempFile, <<"home", "test.php">>},
                 rootScheme : {"file", "untitled"},
                 existing : SUBSET ConfigFileUniverse,
                 platform : {"linux", "win32"}]

\* one element of the argument array
Flag(f) == [flag |-> f, value |-> EmptyString, quoted |-> FALSE]
Option(f, v, q) == [flag |-> f, value |-> v, quoted |-> q]
Positional(v) == [flag |-> "", value |-> v, quoted |-> FALSE]

\* the `files` array: an absolute file as it is, a relative one joined to each
\* search uri
isAbsolute(file) == file = "/.php-cs-fixer.php"
RECURSIVE configCandidates(_, _)
configCandidates(configFiles, searchUris) ==
    IF configFiles = <<>> THEN <<>>
    ELSE LET file == Head(configFiles)
             own == IF file = "" THEN <<>>
                    ELSE IF isAbsolute(file) THEN <<<<file>>>>
                    ELSE [i \in 1..Len(searchUris) |-> Append(searchUris[i], file)]
         IN own \o configCandidates(Tail(configFiles), searchUris)

getArgs(config, env) ==
    LET normalizedFilePath == IF env.filePath = EmptyString THEN UriFsPath ELSE env.filePath
        base == <<Flag("fix"), Flag("--using-cache=no"), Flag("--format=json")>>
        withPhar == IF config.pharPath # NullPath
                    THEN <<Positional(resolveVscodeExpressions(config.pharPath))>> \o base
                    ELSE base
        searchUris == IF env.rootScheme = "file"
                      THEN << <<RootFsPath, ".vscode">>, <<RootFsPath>> >>
                      ELSE <<>>
        files == IF Len(config.config) > 0
                 THEN configCandidates(config.config, searchUris) ELSE <<>>
        found == {i \in 1..Len(files) : files[i] \in env.existing}
        useConfig == found # {}
        win32 == env.platform = "win32"
        withConfig == IF useConfig
                      THEN Append(withPhar, Option("--config=", files[Min(found)], win32))
                      ELSE withPhar
        withRules == IF ~useConfig /\ config.rules # EmptyString
                     THEN Append(withConfig, Option("--rules=", config.rules, win32))
                     ELSE withConfig
        withRisky == IF config.allowRisky
                     THEN Append(withRules, Flag("--allow-risky=yes"))
                     ELSE withRules
        withMode == IF Head(normalizedFilePath) = "tmp"
                    THEN Append(withRisky, Option("--path-mode=", <<"override">>, FALSE))
                    ELSE Append(withRisky, Option("--path-mode=", <<config.pathMode>>, FALSE))
    IN Append(withMode, Positional(normalizedFilePath))

ArgsIdle ==
    /\ gaPc = "new" /\ gaArgs = <<>>
    /\ gaConfig = loadConfig(CHOOSE settings \in Settings : TRUE)
    /\ gaEnv = (CHOOSE env \in Environments : TRUE)

\* `let config = loadConfig()` in activate
LoadConfig(settings) ==
    /\ gaPc = "new"
    /\ gaConfig' = loadConfig(settings)
    /\ gaPc' = "loaded"
    /\ UNCHANGED <<gaEnv, gaArgs>>
    /\ UNCHANGED exceptArgs

\* getArgs(uri, filePath)
GetArgs(env) ==
    /\ gaPc = "loaded"
    /\ gaEnv' = env
    /\ gaArgs' = getArgs(gaConfig, env)
    /\ gaPc' = "done"
    /\ UNCHANGED gaConfig
    /\ UNCHANGED exceptArgs

ArgsNext ==
    \/ \E settings \in Settings : LoadConfig(settings)
    \/ \E env \in Environments : GetArgs(env)

(***************************************************************************)
(* Specifications                                                          *)
(***************************************************************************)
BeautifyNext ==
    \/ BeautifyFastPath
    \/ BeautifyFullPath
    \/ PreActionStart
    \/ PreActionToken
    \/ PreActionReturn
    \/ BeautifyHtml
    \/ AfterAction

\* beautify on every token stream, default options
Init == BeautifyInit(TokenStreams, {DefaultOptions}) /\ CodecIdle /\ FormatIdle /\ RunIdle /\ DownloadIdle /\ OutputIdle /\ AutoFixIdle /\ ArgsIdle
Next == BeautifyNext
Spec == Init /\ [][Next]_vars

\* beautify on every options record, two token streams
OptionStreams == {Flatten(pl) : pl \in PieceLists(1, FALSE)}
InitOptions == BeautifyInit(OptionStreams, [OptionKeys -> OptionValues]) /\ CodecIdle /\ FormatIdle /\ RunIdle /\ DownloadIdle /\ OutputIdle /\ AutoFixIdle /\ ArgsIdle
SpecOptions == InitOptions /\ [][Next]_vars

\* the codec on its own
InitCodec == CodecInit /\ BeautifyIdle /\ FormatIdle /\ RunIdle /\ DownloadIdle /\ OutputIdle /\ AutoFixIdle /\ ArgsIdle
NextCodec == CodecEncode \/ CodecDecode
SpecCodec == InitCodec /\ [][NextCodec]_vars

\* getArgs on every configuration and environment
InitArgs == ArgsIdle /\ BeautifyIdle /\ CodecIdle /\ FormatIdle /\ RunIdle /\ DownloadIdle /\ OutputIdle /\ AutoFixIdle
SpecArgs == InitArgs /\ [][ArgsNext]_vars

\* format() calls on one FormattingService, in every interleaving
InitFormat == FormatIdle /\ BeautifyIdle /\ CodecIdle /\ RunIdle /\ DownloadIdle /\ OutputIdle /\ AutoFixIdle /\ ArgsIdle
SpecFormat == InitFormat /\ [][FormatNext]_vars

\* one runAsync call and the events of its child process
InitRun == RunIdle /\ BeautifyIdle /\ CodecIdle /\ FormatIdle /\ DownloadIdle /\ OutputIdle /\ AutoFixIdle /\ ArgsIdle
SpecRun == InitRun /\ [][RunNext]_vars

\* calls of downloadPhpCsFixerFile, one after the other, on one output path
InitDownload == DownloadInit /\ BeautifyIdle /\ CodecIdle /\ FormatIdle /\ RunIdle /\ OutputIdle /\ AutoFixIdle /\ ArgsIdle
SpecDownload == InitDownload /\ [][DownloadNext]_vars

\* any sequence of calls of the output module's functions
InitOutput == OutputIdle /\ BeautifyIdle /\ CodecIdle /\ FormatIdle /\ RunIdle /\ DownloadIdle /\ AutoFixIdle /\ ArgsIdle
SpecOutput == InitOutput /\ [][OutputNext]_vars

\* one doAutoFixByBracket call for a change event
InitAutoFix ==
    AutoFixInit /\ BeautifyIdle /\ CodecIdle /\ FormatIdle /\ RunIdle /\ DownloadIdle /\ OutputIdle
    /\ ArgsIdle
SpecAutoFix == InitAutoFix /\ [][AutoFixNext]_vars

(***************************************************************************)
(* Properties                                                              *)
(***************************************************************************)
OpenTagPositions(toks) == {k \in 1..Len(toks) : IsOpenTag(toks[k])}
CloseTagPositions(toks) == {k \in 1..Len(toks) : IsCloseTag(toks[k])}

\* original-input offset at which token k starts
Offset(toks, k) == Len(TextOf(SubSeq(toks, 1, k - 1)))

\* the code segments of a token stream: open delimiter through close delimiter
\* or end of input
CodeSegments(toks) ==
    { LET closes == {j \in CloseTagPositions(toks) : j > k}
          last == IF closes = {} THEN Len(toks) ELSE Min(closes)
      IN TextOf(SubSeq(toks, k, last)) : k \in OpenTagPositions(toks) }

\* offset off lies in a script element of the text: from the "<" of its start
\* tag through the ">" of its end tag, or to the end of the input
InsideScriptElement(t, off) ==
    \E p \in 0..off :
        /\ MatchAt(t, SCRIPT_OPEN, p + 1)
        /\ \A q \in p..Len(t) :
              MatchAt(t, SCRIPT_CLOSE, q + 1) => q + Len(SCRIPT_CLOSE) - 1 >= off

\* C1: on the full path, when the external beautifier returns the disguised
\* text unchanged, every code segment of the input occurs in the output
\* character for character.
C1_SegmentsByteForByte ==
    (pc = "done" /\ path = "full" /\ beautifier = "identity")
        => \A seg \in CodeSegments(tokens) : Contains(result, seg)

\* C2: decoding the encoding of s yields s, for every s and both contexts.
C2_CodecRoundTrip ==
    codecPc = "decoded" => codecDecoded = codecS

\* C3: the string beautify returns contains no reserved sentinel substring,
\* on the fast path and on the full path.
C3_NoLeakage ==
    pc = "done" => ~HasSentinel(result)

\* C4: an input with exactly one open delimiter (here the plain "<?php" one) and
\* exactly one close delimiter that ends exactly at the end of the input takes
\* the fast path and is returned unchanged.
SingleBlockEndingAtEnd(toks) ==
    /\ Cardinality(OpenTagPositions(toks)) = 1
    /\ \A k \in OpenTagPositions(toks) : toks[k] = OpenTag
    /\ CloseTagPositions(toks) = {Len(toks)}
    /\ toks[Len(toks)].content = CLOSE_PHP
C4_FastPathTrigger ==
    (pc # "beautify" /\ SingleBlockEndingAtEnd(tokens))
        => (path = "fast" /\ (pc = "done" => result = text))

\* C5: on the fast path the result is the input without the whitespace that
\* precedes the open delimiter at the very start; nothing else changes.
WithoutLeadingWhitespace(toks) ==
    IF /\ Len(toks) >= 2
       /\ IsInlineHtml(toks[1])
       /\ \A i \in 1..Len(toks[1].content) : toks[1].content[i] \in Whitespace
       /\ IsOpenTag(toks[2])
    THEN TextOf(Tail(toks))
    ELSE TextOf(toks)
C5_FastPathResult ==
    (pc = "done" /\ path = "fast")
        => /\ result = WithoutLeadingWhitespace(tokens)
           /\ strArr = <<>> /\ php = <<>> /\ beautified = <<>>

\* C6: markup (not only whitespace) followed by a single code segment without a close delimiter runs
\* the full pipeline, gets a synthesized close plus end-sentinel before the
\* beautifier runs, and yields a sentinel-free result.
MarkupThenUnterminatedSegment(toks) ==
    /\ Len(toks) >= 2
    /\ IsInlineHtml(toks[1])
    /\ \E i \in 1..Len(toks[1].content) : toks[1].content[i] \notin Whitespace
    /\ OpenTagPositions(toks) = {2}
    /\ CloseTagPositions(toks) = {}
C6_UnterminatedFullPipeline ==
    (pc = "done" /\ MarkupThenUnterminatedSegment(tokens))
        => /\ path = "full"
           /\ MatchAt(php, SYNTHETIC_CLOSE, Len(php) - Len(SYNTHETIC_CLOSE) + 1)
           /\ ~HasSentinel(result)

\* C7: an input with two or more code-segment open delimiters never takes the
\* fast path.
C7_MultiBlockExclusion ==
    Cardinality(OpenTagPositions(tokens)) >= 2 => path # "fast"

C7_Witness ==
    /\ pc = "done" /\ path = "full"
    /\ Cardinality(OpenTagPositions(tokens)) >= 2
    /\ IndexOf(text, OPEN_PHP) = LastIndexOf(text, OPEN_PHP)
    /\ IndexOf(text, OPEN_PHP) > -1

\* C8: for every open or close marker token processed, the sentinel emitted is
\* the code-comment one exactly when the token starts inside a script element,
\* and the markup-comment one otherwise.
EmittedStyleMatches(k) ==
    LET t == tokens[k]
        inside == InsideScriptElement(text, Offset(tokens, k))
    IN /\ IsOpenTag(t) =>
            strArr[k] = (IF inside THEN COMMENT_START_CODE ELSE COMMENT_START_MARKUP) \o t.content
       /\ IsCloseTag(t) =>
            /\ Contains(strArr[k], COMMENT_END_CODE) <=> inside
            /\ Contains(strArr[k], COMMENT_END_MARKUP) <=> ~inside
C8_ContextSensitiveWrapping ==
    path = "full" =>
        \A k \in 1..Len(tokens) : k <= Len(strArr) => EmittedStyleMatches(k)

C8_Witness ==
    /\ pc = "done" /\ path = "full"
    /\ \E k \in OpenTagPositions(tokens) :
          /\ InsideScriptElement(text, Offset(tokens, k))
          /\ strArr[k] = COMMENT_START_CODE \o tokens[k].content
    /\ \E k \in OpenTagPositions(tokens) :
          /\ ~InsideScriptElement(text, Offset(tokens, k))
          /\ strArr[k] = COMMENT_START_MARKUP \o tokens[k].content
    /\ \E k \in CloseTagPositions(tokens) :
          /\ InsideScriptElement(text, Offset(tokens, k))
          /\ Contains(strArr[k], COMMENT_END_CODE)

\* C9: a list-valued option given as a comma-separated string or as an array
\* of names reaches the external beautifier as the trimmed, lower-cased names.
NormalizedNames(v) ==
    IF v.kind = "array"
    THEN ArrayValue([i \in 1..Len(v.val) |-> ToLowerCase(Trim(v.val[i]))])
    ELSE IF v.val = <<>> THEN ArrayValue(<<>>)
    ELSE ArrayValue(<<NAME_PRE, NAME_CODE>>)
HtmlOptionOf(key) ==
    CASE key = "contentUnformatted" -> htmlOptions.content_unformatted
      [] key = "extraLiners" -> htmlOptions.extra_liners
      [] key = "unformatted" -> htmlOptions.unformatted
C9_ListOptionsAccepted ==
    path = "full" =>
        \A key \in OptionKeys :
            options[key].kind \in {"string", "array"}
                => HtmlOptionOf(key) = NormalizedNames(options[key])

\* C10: at most one non-partial format() is in progress at any time.
InProgress(c) == calls[c].pc = "awaiting"
C10_OneNonPartialAtATime ==
    Cardinality({c \in Calls : InProgress(c) /\ ~calls[c].isPartial}) <= 1

\* C11: after the fixer exits with code 0, format() resolves with the temp file
\* path in diff mode; otherwise with the content read back when the JSON output
\* lists a file, with the original text when it lists none and stderr has at
\* most one non-empty line, and it rejects when it lists none and stderr has
\* more than one non-empty line.
ExitedZero == settled.call \in Calls /\ settled.exitCode = 0
C11_FormatResult ==
    ExitedZero =>
        LET c == calls[settled.call]
        IN /\ c.isDiff => (c.pc = "resolved" /\ c.value = "filePath")
           /\ (~c.isDiff /\ settled.stdout = "files")
                 => (c.pc = "resolved" /\ c.value = "file content")
           /\ (~c.isDiff /\ settled.stdout = "no files" /\ settled.stderrLines <= 1)
                 => (c.pc = "resolved" /\ c.value = "text")
           /\ (~c.isDiff /\ settled.stdout = "no files" /\ settled.stderrLines > 1)
                 => c.pc = "rejected"

C11_Witness ==
    /\ ExitedZero
    /\ ~calls[settled.call].isDiff
    /\ settled.stdout = "no files" /\ settled.stderrLines > 1
    /\ calls[settled.call].pc = "rejected" /\ calls[settled.call].error = "stderr"
    /\ \E d \in Calls : calls[d].pc = "resolved" /\ calls[d].value = "filePath"
    /\ \E d \in Calls : calls[d].pc = "resolved" /\ calls[d].value = "text"

\* C12: the promise runAsync returns is pending until the child emits 'error'
\* or 'close', and from then on it holds the outcome of the first of these
\* events: resolved for 'close' with code 0, rejected with a ProcessError
\* carrying the code and the collected output for 'close' with another code,
\* rejected with the emitted error for 'error'.
C12_SettlesOnceWithFirstEvent ==
    raPc = "listening" =>
        IF raEvents = <<>> THEN raPromise.state = "pending"
        ELSE LET first == raEvents[1]
             IN IF first.kind = "error"
                THEN raPromise = [state |-> "rejected", value |-> first]
                ELSE IF first.code = 0
                THEN raPromise.state = "resolved"
                ELSE /\ raPromise.state = "rejected"
                     /\ raPromise.value.kind = "ProcessError"
                     /\ raPromise.value.exitCode = first.code
                     /\ raPromise.value.stdout = collectorToString(stdoutCollector)
                     /\ raPromise.value.stderr = collectorToString(stderrCollector)

C12_Witness ==
    /\ Len(raEvents) >= 2
    /\ raEvents[1].kind = "error" /\ raEvents[2].kind = "close"
    /\ raPromise = [state |-> "rejected", value |-> raEvents[1]]

\* C13: when the child closes with exit code 0, runAsync resolves with stdout
\* and stderr equal to the concatenation of the chunks received on each
\* stream, the empty string when none was received.
C13_OutputConcatenation ==
    (raPromise.state = "resolved")
        => /\ raPromise.value.stdout = DefinedString(Flatten(raChunks.stdout))
           /\ raPromise.value.stderr = DefinedString(Flatten(raChunks.stderr))

\* C14: when a step of downloadPhpCsFixerFile fails, it attempts to delete
\* outputPath and the returned promise rejects with the error of the step that
\* failed, also when the deletion fails.
C14_CleanupAndRethrow ==
    (dlPc = "done" /\ dlCaught # NoError)
        => /\ dlUnlinks = 1
           /\ dlPromise = [state |-> "rejected", value |-> dlCaught]

\* C15: at most one output channel and one status bar item are live at a time;
\* the live one is the one the module variable refers to, no resource is
\* disposed twice, and no call throws.
Live(rs) == {i \in 1..Len(rs) : rs[i].disposals = 0}
C15_SingleLiveResources ==
    /\ Live(channels) = {outputChannel} \ {0}
    /\ Live(items) = {statusBarItem} \ {0}
    /\ \A i \in 1..Len(channels) : channels[i].disposals <= 1
    /\ \A i \in 1..Len(items) : items[i].disposals <= 1
    /\ ~outThrew

C15_Witness ==
    /\ Len(channels) = 2 /\ channels[1].disposals = 1 /\ outputChannel = 2
    /\ channels[2].lines > 0
    /\ Len(items) = 2 /\ items[1].disposals = 1 /\ statusBarItem = 2

\* C16: doAutoFixByBracket executes no editor command, calls no format and
\* applies no edit unless the text of the first content change is a closing
\* brace, optionally preceded by whitespace.
C16_OnlyOnClosingBracket ==
    (afCommands # <<>> \/ afFormatCalls > 0 \/ afEdits > 0)
        => (Len(afEvent) >= 1 /\ isClosingBracket(afEvent[1]))

\* the start- and end-sentinels that occur in a disguised text, each with the
\* position of its first character, the position after its last character and
\* its comment style
Occurrences(s, pat) == {i \in 1..Len(s) : MatchAt(s, pat, i)}
SentinelsOf(s, pat, kind, style) ==
    { [pos |-> i, after |-> i + Len(pat), kind |-> kind, style |-> style] :
        i \in Occurrences(s, pat) }
SentinelEvents(s) ==
    SentinelsOf(s, COMMENT_START_MARKUP, "start", "markup")
        \cup SentinelsOf(s, COMMENT_START_CODE, "start", "code")
        \cup SentinelsOf(s, COMMENT_END_MARKUP, "end", "markup")
        \cup SentinelsOf(s, COMMENT_END_CODE, "end", "code")
NoneBetween(ev, a, b) == ~\E x \in ev : a.pos < x.pos /\ x.pos < b.pos

\* preAction has returned the disguised text
Disguised == path = "full" /\ pc \in {"beautifyHtml", "afterAction", "done"}

\* C17: in the disguised text start- and end-sentinels alternate, beginning
\* with a start-sentinel and ending with an end-sentinel, and every
\* end-sentinel has the comment style of the start-sentinel it closes.
Balanced(s) ==
    LET ev == SentinelEvents(s)
    IN /\ \A a \in ev : a.kind = "start" =>
              \E b \in ev : /\ b.kind = "end" /\ a.pos < b.pos
                            /\ NoneBetween(ev, a, b)
                            /\ b.style = a.style
       /\ \A b \in ev : b.kind = "end" =>
              \E a \in ev : a.kind = "start" /\ a.pos < b.pos /\ NoneBetween(ev, a, b)
C17_BalancedWrapper ==
    Disguised => Balanced(php)

\* C18: once the token stream is consumed, a closing delimiter plus
\* end-sentinel is appended to the disguised text exactly when the last token
\* is neither a close marker nor literal markup, in whatever form the
\* tokenizer delivers it.
EndsMidSegment(toks) ==
    /\ toks # <<>>
    /\ ~IsCloseTag(toks[Len(toks)])
    /\ ~IsInlineHtml(toks[Len(toks)])
C18_SyntheticClose ==
    Disguised =>
        IF EndsMidSegment(tokens)
        THEN Len(strArr) = Len(tokens) + 1 /\ strArr[Len(strArr)] = SYNTHETIC_CLOSE
        ELSE Len(strArr) = Len(tokens)

\* C19: every double-quote and single-quote character of a code segment is
\* replaced by its quote sentinel in the disguised text, bare string tokens
\* included.
QuoteChars == {"\"", "'"}
C19_QuotesEscaped ==
    Disguised =>
        \A k \in 1..Len(tokens) :
            ~IsInlineHtml(tokens[k]) =>
                \A i \in 1..Len(strArr[k]) : strArr[k][i] \notin QuoteChars

\* C20: between a start-sentinel and the end-sentinel that closes it (or the
\* end of the text), the terminator of the start-sentinel's comment style
\* does not occur.
Terminator(style) == IF style = "code" THEN CODE_END ELSE MARKUP_END
C20_NoEarlyTerminator ==
    Disguised =>
        LET ev == SentinelEvents(php)
        IN \A a \in ev : a.kind = "start" =>
              LET later == {b \in ev : b.kind = "end" /\ b.pos >= a.after}
                  stop == IF later = {} THEN Len(php)
                          ELSE Min({b.pos : b \in later}) - 1
              IN ~Contains(SubSeq(php, a.after, stop), Terminator(a.style))

\* C21: when the token transformer tests range containment for the k-th token,
\* the cursor is the token's start offset in the original input: the sum of
\* the original lengths of the tokens before it.
C21_CursorIsOriginalOffset ==
    pc = "loop" => index = Offset(tokens, tokenPos)

C21_Witness ==
    /\ pc = "loop" /\ tokenPos >= 3 /\ tokenPos <= Len(tokens)
    /\ index = Offset(tokens, tokenPos)
    /\ Len(Flatten(strArr)) > index
    /\ scriptStyleRanges # <<>>

\* C22: script/style ranges are half-open: a token whose cursor equals the end
\* offset recorded for a range, and that lies in no other range, is tested as
\* outside.
AtRangeEnd(off) ==
    /\ \E r \in 1..Len(scriptStyleRanges) : scriptStyleRanges[r][2] = off
    /\ \A r \in 1..Len(scriptStyleRanges) :
           ~(scriptStyleRanges[r][1] <= off /\ off < scriptStyleRanges[r][2])

C22_HalfOpenRanges ==
    (pc = "loop" /\ tokenPos <= Len(tokens) /\ AtRangeEnd(index))
        => ~inScriptStyleTag(scriptStyleRanges, index)

\* C23: every script element that is still open at the end of the input gets
\* a range from its own start offset that contains every later offset, and
\* every closed script element gets exactly one range from its own start
\* offset to the offset where its closing tag ends.
ScriptCloses(t, p) == {q \in p..Len(t) : MatchAt(t, SCRIPT_CLOSE, q + 1)}
IsElementStart(t, p) ==
    /\ MatchAt(t, SCRIPT_OPEN, p + 1)
    /\ \A p2 \in 0..(p - 1) :
          MatchAt(t, SCRIPT_OPEN, p2 + 1) => \E q \in ScriptCloses(t, p2) : q < p
RangesWithStart(p) ==
    {r \in 1..Len(scriptStyleRanges) : scriptStyleRanges[r][1] = p}
RangesComputed == path = "full" /\ pc \in {"loop", "beautifyHtml", "afterAction", "done"}
HasSettled(c) == calls[c].pc \in {"resolved", "rejected"}
C24_CleanupOnEveryExit ==
    \A c \in Calls :
        (HasSettled(c) /\ ~calls[c].isPartial) =>
            IF calls[c].isDiff THEN c \in tmpDirs ELSE c \notin tmpDirs

\* C25: when no format() call is in progress, isRunning is false, whichever
\* way the calls made so far have settled.
C25_GuardNeverStuck ==
    (\A c \in Calls : ~InProgress(c)) => isRunning = FALSE

\* C26: while a partial format() call awaits the fixer, php-cs-fixer-partial.php
\* holds the text this call wrote.
C26_PartialFileOwned ==
    \A c \in Calls :
        (InProgress(c) /\ calls[c].isPartial) => partialFile = c

\* C27: the text doAutoFixByBracket replaces the range with holds none of the
\* scaffold lines that were prepended for formatting.
ScaffoldLines == {PHP_LINE, SPLITER_LINE, IF_LINE}
C27_EditWithoutScaffold ==
    afEdits > 0 => \A i \in 1..Len(afReplacement) : afReplacement[i] \notin ScaffoldLines

\* C28: when jumpToBracket moved the cursor, exactly one cursorUndo is executed
\* and it has completed before format is called or the document is edited;
\* when the cursor did not move, none is executed.
CommandCount(command) ==
    Cardinality({i \in 1..Len(afCommands) : afCommands[i] = command})
JumpCompleted ==
    CommandCount("editor.action.jumpToBracket") = 1 /\ afPc # "jumpToBracket"
C29_ListenersRemoved ==
    raEvents # <<>> => raListeners \cap {"handleError", "handleClose"} = {}


\* C30: the array getArgs returns begins with 'fix', '--using-cache=no',
\* '--format=json' when pharPath is the empty string and has the resolved phar
\* path before them only when one is configured; it holds at most one of
\* --config= and --rules=, --rules= only when no existing config file was
\* found; its last element is the target file path.
ArgsWithFlag(f) == {i \in 1..Len(gaArgs) : gaArgs[i].flag = f}
BeginsAt(k) ==
    /\ Len(gaArgs) >= k + 2
    /\ gaArgs[k] = Flag("fix")
    /\ gaArgs[k + 1] = Flag("--using-cache=no")
    /\ gaArgs[k + 2] = Flag("--format=json")
TargetPath == IF gaEnv.filePath = EmptyString THEN UriFsPath ELSE gaEnv.filePath
C30_ArgumentStructure ==
    gaPc = "done" =>
        /\ gaConfig.pharPath = EmptyString => BeginsAt(1)
        /\ gaConfig.pharPath # EmptyString =>
              (gaArgs[1] = Positional(gaConfig.pharPath) /\ BeginsAt(2))
        /\ Cardinality(ArgsWithFlag("--config=") \cup ArgsWithFlag("--rules=")) <= 1
        /\ ArgsWithFlag("--rules=") # {} =>
              \A i \in ArgsWithFlag("--config=") \cup {0} : i = 0
        /\ gaArgs[Len(gaArgs)] = Positional(TargetPath)

====
